---- MODULE Spec2Model ----
(***************************************************************************)
(* A model of AnnotationsListPlugin                                        *)
(* (src/src/search/background/annots-list.ts): the annotation store, the   *)
(* facet filters, the term lookup, and the three registered query          *)
(* operations searchAnnots, listAnnotsByPage and listAnnotsByDay.          *)
(*                                                                         *)
(* Annotation keys (url strings in the code) are the integers 1..MaxKey,   *)
(* ordered as the strings are; 0 stands for JavaScript's undefined.        *)
(* Instants are integers; a calendar day is DayLen consecutive instants,   *)
(* so moment's startOf('day') is t - (t % DayLen).  As in the code, a      *)
(* startDate or endDate of 0 is falsy and counts as not given.             *)
(***************************************************************************)
EXTENDS Integers, Sequences, FiniteSets, TLC

\* ---------------------------------------------------------------- bounds
\* The annotations of the day listing's stores are 1..MaxKey.
MaxKey == 2
\* Instants are 0..MaxTime.
MaxTime == 6
\* params.limit is 1..MaxLimit.
MaxLimit == 2
\* The do-while loop of listAnnotsByPage is followed for at most MaxIter turns.
MaxIter == 3

\* The length of a calendar day, in instants.
DayLen == 2
\* moment('2018-06-01'), the fixed floor of calcHardLowerTimeBound.
AnnotsReleaseFloor == 1
\* static DEF_INNER_LIMIT_MULTI
DEF_INNER_LIMIT_MULTI == 2
\* paginateAnnotsResults: internalPageSize = limit * 2
InternalPageMulti == 2

Keys == 1..MaxKey
Times == 0..MaxTime
Pages == {"p1", "p2"}
Terms == {"alpha", "beta"}
TagNames == {"t1", "t2"}
ListIds == {1, 2}
ListNames == {"c1", "c2"}
Skips == {0, 1}
\* Date.now(): no annotation of the store was edited after it.
Now == MaxTime
\* The value Array.prototype.map yields for a key Map.get does not find.
Undefined == 0

VARIABLES
    annots,         \* the annotations table: key -> record (live: still stored)
    bookmarks,      \* the annotation bookmarks table: the set of its keys
    tags,           \* the tags table: the set of its [name, url] keys
    lists,          \* the custom lists table: id -> name
    listEntries,    \* the list entries table: the set of its [listId, url] keys
    installTime,    \* browser.storage.local[INSTALL_TIME_KEY]
    params,         \* the AnnotSearchParams of the running call
    pc,             \* where the running call stands
    hardLowerLimit, \* listAnnotsByDay: hardLowerLimit
    dateCursor,     \* listAnnotsByDay: dateCursor
    dayResults,     \* listAnnotsByDay: results (an insertion-ordered Map)
    queries,        \* the range queries queryAnnotsByDay has issued, in order
    results,        \* listAnnotsByPage: results; searchAnnots: the key list in hand
    iters,          \* listAnnotsByPage: the fetches made so far
    internalSkip,   \* paginateAnnotsResults: internalSkip
    annotsByPage,   \* paginateAnnotsResults: annotsByPage (an insertion-ordered Map)
    seenPages,      \* paginateAnnotsResults: seenPages
    ret             \* the value the call returned

store == <<annots, bookmarks, tags, lists, listEntries, installTime>>
dayLocals == <<hardLowerLimit, dateCursor, dayResults, queries>>
pageLocals == <<results, iters>>
searchLocals == <<internalSkip, annotsByPage, seenPages>>
vars == <<annots, bookmarks, tags, lists, listEntries, installTime, params, pc,
          hardLowerLimit, dateCursor, dayResults, queries, results, iters,
          internalSkip, annotsByPage, seenPages, ret>>

\* ------------------------------------------------------- general helpers
Min(a, b) == IF a < b THEN a ELSE b
Max(a, b) == IF a > b THEN a ELSE b
Range(s) == {s[i] : i \in 1..Len(s)}

\* Array.prototype.slice(from, to)
Slice(s, from, to) == SubSeq(s, from + 1, Min(to, Len(s)))

\* The keys of S in ascending order: the order of an index on the primary key.
RECURSIVE Ascending(_)
Ascending(S) ==
    IF S = {} THEN <<>>
    ELSE LET m == CHOOSE x \in S : \A y \in S : x <= y
         IN <<m>> \o Ascending(S \ {m})

\* [...new Set(s)]: the first occurrence of each element, in order.
RECURSIVE Dedup(_)
Dedup(s) ==
    IF s = <<>> THEN <<>>
    ELSE LET r == Dedup(SubSeq(s, 1, Len(s) - 1))
             x == s[Len(s)]
         IN IF x \in Range(r) THEN r ELSE Append(r, x)

\* An insertion-ordered Map is a sequence of [k, v] entries with distinct k.
MapHas(m, k) == \E i \in 1..Len(m) : m[i].k = k
MapGet(m, k, default) ==
    IF MapHas(m, k) THEN m[CHOOSE i \in 1..Len(m) : m[i].k = k].v ELSE default
\* Map.prototype.set: a key already present keeps its place.
MapSet(m, k, v) ==
    IF MapHas(m, k)
    THEN [i \in 1..Len(m) |-> IF m[i].k = k THEN [k |-> k, v |-> v] ELSE m[i]]
    ELSE Append(m, [k |-> k, v |-> v])

\* ------------------------------------------------------------- the store
Live == {k \in DOMAIN annots : annots[k].live}
lastEdited(k) == annots[k].lastEdited
pageUrl(k) == annots[k].pageUrl
StartOfDay(t) == t - (t % DayLen)
EndOfDay(t) == StartOfDay(t) + DayLen - 1

NoParams ==
    [url |-> "", startDate |-> 0, endDate |-> 0, limit |-> 1, skip |-> 0,
     termsInc |-> <<>>, includeHighlights |-> FALSE, includeNotes |-> FALSE,
     bookmarksOnly |-> FALSE, tagsInc |-> {}, tagsExc |-> {}, collections |-> {}]

\* ------------------------------------------------------------ FacetFilter
\* The bookmarks table's primary keys for the given urls, in index order.
filterByBookmarks(urls) == Ascending({k \in bookmarks : k \in Range(urls)})

filterByTags(urls, p) ==
    LET found == {t \in tags : t[2] \in Range(urls)}
        afterExc == IF p.tagsExc # {}
                    THEN {t \in found : t[1] \notin p.tagsExc} ELSE found
        afterInc == IF p.tagsInc # {}
                    THEN {t \in afterExc : t[1] \in p.tagsInc} ELSE afterExc
        tagUrls == {t[2] : t \in afterInc}
    IN SelectSeq(urls, LAMBDA u : u \in tagUrls)

filterByCollections(urls, p) ==
    LET listIds == {id \in DOMAIN lists : lists[id] \in p.collections}
        entries == {e \in listEntries : e[2] \in Range(urls)}
        entryUrls == {e[2] : e \in {x \in entries : x[1] \in listIds}}
    IN SelectSeq(urls, LAMBDA u : u \in entryUrls)

\* A plausible slip: the tag stage triggered by tagsInc alone.
filterResults_TagsIncOnly(res, p) ==
    LET r1 == IF p.bookmarksOnly THEN filterByBookmarks(res) ELSE res
        r2 == IF p.tagsInc # {} THEN filterByTags(r1, p) ELSE r1
        r3 == IF p.collections # {} THEN filterByCollections(r2, p) ELSE r2
    IN r3

filterResults(res, p) ==
    LET r1 == IF p.bookmarksOnly THEN filterByBookmarks(res) ELSE res
        r2 == IF p.tagsInc # {} \/ p.tagsExc # {} THEN filterByTags(r1, p) ELSE r1
        r3 == IF p.collections # {} THEN filterByCollections(r2, p) ELSE r2
    IN r3

\* -------------------------------------------------------- ResultAssembler
\* The record of each url, in the order given; Undefined where none is stored.
mapUrlsToAnnots(urls) ==
    [i \in 1..Len(urls) |-> IF urls[i] \in Live THEN urls[i] ELSE Undefined]

\* ------------------------------------------------------------ PageClusterer
\* Array.prototype.sort with (a, b) => b.lastEdited - a.lastEdited: a stable
\* sort, latest edit first.
RECURSIVE InsertDesc(_, _)
InsertDesc(sorted, x) ==
    IF sorted = <<>> THEN <<x>>
    ELSE IF lastEdited(sorted[Len(sorted)]) >= lastEdited(x) THEN Append(sorted, x)
    ELSE Append(InsertDesc(SubSeq(sorted, 1, Len(sorted) - 1), x), sorted[Len(sorted)])

RECURSIVE SortDesc(_)
SortDesc(as) ==
    IF as = <<>> THEN <<>>
    ELSE InsertDesc(SortDesc(SubSeq(as, 1, Len(as) - 1)), as[Len(as)])

DayOf(a) == StartOfDay(lastEdited(a))

\* The loop of clusterAnnotsByDays: each annotation appended to its day's list.
RECURSIVE GroupByDay(_, _)
GroupByDay(m, as) ==
    IF as = <<>> THEN m
    ELSE LET a == as[1]
             existing == MapGet(m, DayOf(a), <<>>)
         IN GroupByDay(MapSet(m, DayOf(a), Append(existing, a)), Tail(as))

\* The inner loop of clusterAnnotsByPage: each annotation appended to its page's list.
RECURSIVE GroupByPage(_, _)
GroupByPage(m, as) ==
    IF as = <<>> THEN m
    ELSE LET a == as[1]
             existing == MapGet(m, pageUrl(a), <<>>)
         IN GroupByPage(MapSet(m, pageUrl(a), Append(existing, a)), Tail(as))

clusterAnnotsByDays(as) == GroupByDay(<<>>, SortDesc(as))

clusterAnnotsByPage(as) ==
    LET byDays == clusterAnnotsByDays(as)
    IN [i \in 1..Len(byDays) |->
            [k |-> byDays[i].k, v |-> GroupByPage(<<>>, byDays[i].v)]]

\* One day of b merged into the page map of the same day of a.
RECURSIVE MergePages(_, _)
MergePages(pagesA, pagesB) ==
    IF pagesB = <<>> THEN pagesA
    ELSE LET e == pagesB[1]
             existing == MapGet(pagesA, e.k, <<>>)
         IN MergePages(MapSet(pagesA, e.k, existing \o e.v), Tail(pagesB))

RECURSIVE mergeResults(_, _)
mergeResults(a, b) ==
    IF b = <<>> THEN a
    ELSE LET e == b[1]
             pagesA == MapGet(a, e.k, <<>>)
         IN mergeResults(MapSet(a, e.k, MergePages(pagesA, e.v)), Tail(b))

\* ------------------------------------------------------- listAnnotsByDay
calcHardLowerTimeBound(p) ==
    LET annotsRelease == IF p.startDate # 0 THEN p.startDate ELSE AnnotsReleaseFloor
    IN IF annotsRelease > installTime THEN annotsRelease ELSE installTime

\* where('lastEdited').between(lo, hi, true, true).reverse().toArray():
\* latest edit first, equal instants by descending key.
RECURSIVE Descending(_)
Descending(S) ==
    IF S = {} THEN <<>>
    ELSE LET m == CHOOSE x \in S : \A y \in S :
                      \/ lastEdited(x) > lastEdited(y)
                      \/ lastEdited(x) = lastEdited(y) /\ x >= y
         IN <<m>> \o Descending(S \ {m})

\*
\* The index holds Date keys (lastEdited.getTime(), lines 65 and 194).  The
\* upper endpoint is upperBound.toDate(), a Date, but the lower endpoint is
\* dateCursor.valueOf(), a Number.  IndexedDB orders keys by type first, every
\* Number before every Date, so the key range [Number, Date] is well formed and
\* its lower endpoint admits every Date key: only the upper endpoint selects.
NumberBeforeDate(number, date) == TRUE

queryAnnotsByDay(lo, hi) ==
    Descending({k \in Live : /\ NumberBeforeDate(lo, lastEdited(k))
                             /\ lastEdited(k) <= hi})

\* A plausible slip: the step back never clamped onto the hard lower limit.
NextCursor_NoClamp(cursor, lower, limit) == cursor - limit * DayLen

\* Where the cursor goes next: back `limit` days, or onto the hard lower limit
\* when fewer than `limit` whole days separate them.
NextCursor(cursor, lower, limit) ==
    IF (cursor - lower) \div DayLen < limit THEN lower ELSE cursor - limit * DayLen

\* "Cut off any excess" of listAnnotsByDay.
CutDays(res, p) ==
    IF Len(res) > p.limit THEN Slice(res, p.skip, p.skip + p.limit) ELSE res

DayStart ==
    /\ pc = "listAnnotsByDay"
    /\ hardLowerLimit' = calcHardLowerTimeBound(params)
    /\ dateCursor' = IF params.endDate # 0 THEN params.endDate ELSE EndOfDay(Now)
    /\ pc' = "loop"
    /\ UNCHANGED <<store, params, dayResults, queries, pageLocals, searchLocals, ret>>

DayContinue == Len(dayResults) < params.limit /\ dateCursor > hardLowerLimit

DayIter ==
    /\ pc = "loop"
    /\ DayContinue
    /\ LET upperBound == dateCursor
           cursor == NextCursor(dateCursor, hardLowerLimit, params.limit)
           found == queryAnnotsByDay(cursor, upperBound)
           filteredPks == Range(filterResults(found, params))
           kept == SelectSeq(found, LAMBDA a : a \in filteredPks)
       IN /\ dateCursor' = cursor
          /\ queries' = Append(queries, [lo |-> cursor, hi |-> upperBound])
          /\ dayResults' = mergeResults(dayResults, clusterAnnotsByPage(kept))
    /\ UNCHANGED <<store, params, pc, hardLowerLimit, pageLocals, searchLocals, ret>>

DayReturn ==
    /\ pc = "loop"
    /\ ~DayContinue
    /\ ret' = CutDays(dayResults, params)
    /\ pc' = "done"
    /\ UNCHANGED <<store, params, dayLocals, pageLocals, searchLocals>>

\* The stores of the day listing: every annotation stored, keys in edit order
\* and the first annotation on page p1 (a relabelling of any store's keys and
\* pages); bookmarks are the facet, with no tags and no list entries.
\* Bookmarks on no key, or on every key but at most one.
DayBookmarks == {{}, Keys} \cup {Keys \ {k} : k \in Keys}
InstallTimes == {0, 2}
StartDates == {0, 3}

InitLocals ==
    /\ hardLowerLimit = 0
    /\ dateCursor = 0
    /\ dayResults = <<>>
    /\ queries = <<>>
    /\ results = <<>>
    /\ iters = 0
    /\ internalSkip = 0
    /\ annotsByPage = <<>>
    /\ seenPages = {}
    /\ ret = <<>>

InitDay ==
    /\ annots \in [Keys -> [pageUrl : Pages, lastEdited : Times, live : {TRUE},
                            body : {{}}, comment : {{}}]]
    /\ \A k \in Keys : k + 1 \in Keys => annots[k].lastEdited <= annots[k + 1].lastEdited
    /\ annots[1].pageUrl = "p1"
    /\ bookmarks \in DayBookmarks
    /\ tags = {}
    /\ lists = [id \in ListIds |-> "c1"]
    /\ listEntries = {}
    /\ installTime \in InstallTimes
    /\ \E l \in 1..MaxLimit, s \in Skips, sd \in StartDates, ed \in Times,
          bm \in BOOLEAN :
          /\ ~bm => bookmarks = {}
          /\ params = [NoParams EXCEPT !.limit = l, !.skip = s, !.startDate = sd,
                                       !.endDate = ed, !.bookmarksOnly = bm]
    /\ pc = "listAnnotsByDay"
    /\ InitLocals

NextDay == DayStart \/ DayIter \/ DayReturn

SpecDay == InitDay /\ [][NextDay]_vars

\* ------------------------------------------------- claims: listAnnotsByDay
\* What the facet parameters ask of a key, stated on the tables.
FacetPass(k, p) ==
    /\ p.bookmarksOnly => k \in bookmarks
    /\ (p.tagsInc # {} \/ p.tagsExc # {}) =>
          \E t \in tags : /\ t[2] = k
                          /\ t[1] \notin p.tagsExc
                          /\ (p.tagsInc # {} => t[1] \in p.tagsInc)
    /\ p.collections # {} =>
          \E e \in listEntries : /\ e[2] = k
                                 /\ e[1] \in DOMAIN lists
                                 /\ lists[e[1]] \in p.collections

\* The later of (startDate if given, else the floor) and the installation time.
LowerBound ==
    Max(IF params.startDate # 0 THEN params.startDate ELSE AnnotsReleaseFloor,
        installTime)
EffectiveEnd == IF params.endDate # 0 THEN params.endDate ELSE EndOfDay(Now)

InWindow ==
    {k \in Live : /\ FacetPass(k, params)
                  /\ LowerBound <= lastEdited(k)
                  /\ lastEdited(k) <= EffectiveEnd}
DaysInWindow == {DayOf(k) : k \in InWindow}

NonIncreasing(as) ==
    \A i \in 1..Len(as) : \A j \in 1..Len(as) :
        i < j => lastEdited(as[i]) >= lastEdited(as[j])

\* The returned map has min(limit, D) day buckets, the most recent days of the
\* window in strictly descending order, each holding only annotations of its
\* day, latest edit first in each page list.
DayBuckets ==
    /\ Len(ret) = Min(params.limit, Cardinality(DaysInWindow))
    /\ \A i \in 1..Len(ret) :
          /\ ret[i].k \in DaysInWindow
          /\ Cardinality({d \in DaysInWindow : d > ret[i].k}) = i - 1
          /\ \A j \in 1..Len(ret[i].v) :
                /\ \A x \in Range(ret[i].v[j].v) : DayOf(x) = ret[i].k
                /\ NonIncreasing(ret[i].v[j].v)

\* C3: listAnnotsByDay with skip = 0 returns exactly min(limit, D)
\* day buckets, the most recent of the D days on which facet-passing
\* annotations of [hard lower bound, endDate] were edited, in strictly
\* descending order, each holding only that day's annotations, latest first.
C3_DayBuckets == (pc = "done" /\ params.skip = 0) => DayBuckets

\* C4: every range query's lower endpoint is at or after the hard lower bound
\* (the later of startDate-or-floor and the installation time), no query is
\* issued when endDate is not after that bound, and the cursor never moves
\* below the bound.
C4_LowerBoundRespected ==
    /\ \A i \in 1..Len(queries) : queries[i].lo >= LowerBound
    /\ ~(EffectiveEnd > LowerBound) => queries = <<>>
    /\ pc # "listAnnotsByDay" => (dateCursor >= LowerBound \/ dateCursor = EffectiveEnd)
    /\ pc # "listAnnotsByDay" => hardLowerLimit = LowerBound

\* A finished call, bounded by the installation time, whose first window went
\* back a full `limit` days and whose last window was clamped onto the bound.
C4_Witness ==
    /\ pc = "done"
    /\ Len(queries) >= 2
    /\ queries[Len(queries)].lo = LowerBound
    /\ queries[1].lo = EffectiveEnd - params.limit * DayLen
    /\ installTime > AnnotsReleaseFloor

\* The annotations listed under day bucket i of the returned map, page by page.
RECURSIVE Flatten(_)
Flatten(pages) == IF pages = <<>> THEN <<>> ELSE pages[1].v \o Flatten(Tail(pages))

\* C9: each returned day lists exactly the facet-passing annotations of
\* [hard lower bound, endDate] edited that day, each exactly once.
C9_DayComplete ==
    pc = "done" =>
        \A i \in 1..Len(ret) :
            LET listed == Flatten(ret[i].v)
            IN /\ Range(listed) = {k \in InWindow : DayOf(k) = ret[i].k}
               /\ \A a \in 1..Len(listed) : \A b \in 1..Len(listed) :
                     listed[a] = listed[b] => a = b

\* ------------------------------------------------------ listAnnotsByPage
\* listWithUrl(params): the page's annotations in index order, inside the date
\* window when either end of it is given.
listWithUrl(p) ==
    LET coll == Ascending({k \in Live : pageUrl(k) = p.url})
        startDate == p.startDate
        endDate == IF p.endDate # 0 THEN p.endDate ELSE Now
    IN IF p.startDate = 0 /\ p.endDate = 0 THEN coll
       ELSE SelectSeq(coll, LAMBDA k : lastEdited(k) >= startDate
                                       /\ lastEdited(k) <= endDate)

\* Collection.limit(n)
Limit(coll, n) == SubSeq(coll, 1, Min(n, Len(coll)))

InnerLimit(p) == p.limit * DEF_INNER_LIMIT_MULTI

\* "Cut off any excess" of listAnnotsByPage.
CutPage(res, p) ==
    IF Len(res) > p.limit THEN Slice(res, p.skip, p.skip + p.limit) ELSE res

\* One turn of the do-while loop; listWithUrl throws
\* Error('URL must be supplied to list annotations.') when no url is given.
PageFetch ==
    /\ pc \in {"listAnnotsByPage", "pageLoop"}
    /\ iters < MaxIter
    /\ IF params.url = ""
       THEN /\ pc' = "errUrl"
            /\ UNCHANGED <<results, iters>>
       ELSE LET innerResults == Limit(listWithUrl(params), InnerLimit(params))
                continueLookup == Len(innerResults) >= InnerLimit(params)
            IN /\ results' = results \o filterResults(innerResults, params)
               /\ iters' = iters + 1
               /\ pc' = IF continueLookup THEN "pageLoop" ELSE "pageCut"
    /\ UNCHANGED <<store, params, dayLocals, searchLocals, ret>>

PageReturn ==
    /\ pc = "pageCut"
    /\ ret' = mapUrlsToAnnots(CutPage(results, params))
    /\ pc' = "done"
    /\ UNCHANGED <<store, params, dayLocals, pageLocals, searchLocals>>

PageKeys == {1, 2, 3}
PageTimes == {2, 5}
PageStartDates == {0, 3}
PageEndDates == {0, 4}

InitPage ==
    /\ annots \in [PageKeys -> [pageUrl : Pages, lastEdited : PageTimes, live : {TRUE},
                                body : {{}}, comment : {{}}]]
    /\ bookmarks \in SUBSET PageKeys
    /\ tags = {}
    /\ lists = [id \in ListIds |-> "c1"]
    /\ listEntries = {}
    /\ installTime = 0
    /\ \E u \in {"", "p1"}, l \in 1..MaxLimit, s \in Skips, sd \in PageStartDates,
          ed \in PageEndDates, bm \in BOOLEAN :
          /\ ~bm => bookmarks = {}
          /\ params = [NoParams EXCEPT !.url = u, !.limit = l, !.skip = s,
                                       !.startDate = sd, !.endDate = ed,
                                       !.bookmarksOnly = bm]
    /\ pc = "listAnnotsByPage"
    /\ InitLocals

NextPage == PageFetch \/ PageReturn

SpecPage == InitPage /\ [][NextPage]_vars

\* ------------------------------------------------ claims: listAnnotsByPage
\* The page's facet-passing annotations of the date window, in store order.
PageMatches == SelectSeq(listWithUrl(params), LAMBDA k : FacetPass(k, params))

\* C1: the fetch loop ends: a turn either receives a batch shorter than the
\* inner limit and stops, or moves on past the keys it fetched, so a page with
\* n keys in the window is fetched at most n \div innerLimit + 1 times.
C1_FetchesBounded ==
    params.url # "" =>
        iters <= (Len(listWithUrl(params)) \div InnerLimit(params)) + 1

\* C2: a returned page listing is the facet-filtered matches at positions
\* skip .. skip + limit - 1 of the store order, whatever the number of matches.
C2_PageSlice ==
    pc = "done" => ret = Slice(PageMatches, params.skip, params.skip + params.limit)

\* ------------------------------------------------------------- TermLookup
\* where(field).equals(term) on a multi-entry index, inside the date window
\* when either end of it is given; the primary keys, in index order.
queryTermsField(field, term, p) ==
    LET coll == Ascending({k \in Live : term \in annots[k][field]})
        startDate == p.startDate
        endDate == IF p.endDate # 0 THEN p.endDate ELSE Now
    IN IF p.startDate # 0 \/ p.endDate # 0
       THEN SelectSeq(coll, LAMBDA k : lastEdited(k) >= startDate
                                       /\ lastEdited(k) <= endDate)
       ELSE coll

Fields(p) ==
    (IF p.includeHighlights THEN <<"body">> ELSE <<>>)
        \o (IF p.includeNotes THEN <<"comment">> ELSE <<>>)

\* [].concat(...termRes): the results of one term on each field, end to end.
RECURSIVE ConcatFields(_, _, _)
ConcatFields(fields, term, p) ==
    IF fields = <<>> THEN <<>>
    ELSE queryTermsField(fields[1], term, p) \o ConcatFields(Tail(fields), term, p)

\* The results Map of lookupTerms: one entry per distinct term.
RECURSIVE TermResults(_, _, _)
TermResults(m, terms, p) ==
    IF terms = <<>> THEN m
    ELSE TermResults(MapSet(m, terms[1], Dedup(ConcatFields(Fields(p), terms[1], p))),
                     Tail(terms), p)

\* [...results.values()].reduce((a, b) => a.filter(res => bSet.has(res))),
\* for at least one value.
RECURSIVE ReduceIntersect(_, _)
ReduceIntersect(a, rest) ==
    IF rest = <<>> THEN a
    ELSE ReduceIntersect(SelectSeq(a, LAMBDA res : res \in Range(rest[1].v)),
                         Tail(rest))

\* A plausible slip: every term looked for in one and the same field.
lookupTerms_SameField(p) ==
    LET perField(f) == {k \in Live : \A i \in 1..Len(p.termsInc) :
                            k \in Range(queryTermsField(f, p.termsInc[i], p))}
    IN Ascending(UNION {perField(Fields(p)[j]) : j \in 1..Len(Fields(p))})

lookupTerms(p) ==
    LET m == TermResults(<<>>, p.termsInc, p)
    IN ReduceIntersect(m[1].v, Tail(m))

\* lookupTerms called on its own; reduce throws a TypeError on no terms.
TermsCall ==
    /\ pc = "lookupTerms"
    /\ IF params.termsInc = <<>>
       THEN pc' = "errReduce" /\ ret' = ret
       ELSE pc' = "done" /\ ret' = lookupTerms(params)
    /\ UNCHANGED <<store, params, dayLocals, pageLocals, searchLocals>>

RECURSIVE SeqsUpTo(_, _)
SeqsUpTo(S, n) ==
    IF n = 0 THEN {<<>>}
    ELSE LET shorter == SeqsUpTo(S, n - 1)
         IN shorter \cup {Append(q, x) : q \in shorter, x \in S}

\* params.termsInc holds at most MaxTerms terms.
MaxTerms == 2
TermKeys == {1, 2}
TermTimes == {2, 5}
TermStartDates == {0, 2, 3}
TermEndDates == {0, 4, 5}

InitTerms ==
    /\ annots \in [TermKeys -> [pageUrl : {"p1"}, lastEdited : TermTimes, live : {TRUE},
                                body : SUBSET Terms, comment : SUBSET Terms]]
    /\ bookmarks = {}
    /\ tags = {}
    /\ lists = [id \in ListIds |-> "c1"]
    /\ listEntries = {}
    /\ installTime = 0
    /\ \E t \in SeqsUpTo(Terms, MaxTerms), hl \in BOOLEAN, nt \in BOOLEAN,
          sd \in TermStartDates, ed \in TermEndDates :
          params = [NoParams EXCEPT !.termsInc = t, !.includeHighlights = hl,
                                    !.includeNotes = nt, !.startDate = sd,
                                    !.endDate = ed]
    /\ pc = "lookupTerms"
    /\ InitLocals

NextTerms == TermsCall

SpecTerms == InitTerms /\ [][NextTerms]_vars

\* ------------------------------------------------------ claims: TermLookup
InDateWindow(k, p) ==
    /\ p.startDate # 0 => lastEdited(k) >= p.startDate
    /\ p.endDate # 0 => lastEdited(k) <= p.endDate

\* Term t occurs in at least one enabled field of annotation k.
TermInEnabledField(k, t, p) ==
    \/ p.includeHighlights /\ t \in annots[k].body
    \/ p.includeNotes /\ t \in annots[k].comment

\* C5: for a non-empty term list and at least one enabled field, lookupTerms
\* returns, as a set, exactly the keys of the annotations of the date window
\* in which every term occurs in at least one enabled field.
C5_TermIntersection ==
    (pc = "done" /\ params.termsInc # <<>>
        /\ (params.includeHighlights \/ params.includeNotes)) =>
        Range(ret) = {k \in Live :
                        /\ InDateWindow(k, params)
                        /\ \A i \in 1..Len(params.termsInc) :
                              TermInEnabledField(k, params.termsInc[i], params)}

\* Two terms matched by different fields of one annotation, inside a date
\* window that leaves the other annotation out.
C5_Witness ==
    /\ pc = "done"
    /\ params.termsInc = <<"alpha", "beta">>
    /\ params.includeHighlights /\ params.includeNotes
    /\ params.startDate = 3
    /\ ret = <<2>>
    /\ annots[2].body = {"alpha"} /\ annots[2].comment = {"beta"}
    /\ annots[1].body = {"alpha", "beta"} /\ annots[1].lastEdited = 2

\* ------------------------------------------------------------ FacetFilter
\* filterResults called on its own, on the candidate keys in `results`.
FacetCall ==
    /\ pc = "filterResults"
    /\ ret' = filterResults(results, params)
    /\ pc' = "done"
    /\ UNCHANGED <<store, params, dayLocals, pageLocals, searchLocals>>

FacetKeys == {1, 2}
Candidates == {<<1, 2>>, <<2, 1>>, <<1>>}
ListTables == {[id \in ListIds |-> IF id = 1 THEN "c1" ELSE "c2"],
               [id \in ListIds |-> "c1"]}

InitFacet ==
    /\ annots = [k \in FacetKeys |-> [pageUrl |-> "p1", lastEdited |-> 2, live |-> TRUE,
                                      body |-> {}, comment |-> {}]]
    /\ bookmarks \in SUBSET FacetKeys
    /\ tags \in SUBSET (TagNames \X FacetKeys)
    /\ lists \in ListTables
    /\ listEntries \in SUBSET (ListIds \X FacetKeys)
    /\ installTime = 0
    /\ \E bm \in BOOLEAN, ti \in SUBSET TagNames, te \in SUBSET TagNames,
          co \in SUBSET ListNames :
          params = [NoParams EXCEPT !.bookmarksOnly = bm, !.tagsInc = ti,
                                    !.tagsExc = te, !.collections = co]
    /\ pc = "filterResults"
    /\ hardLowerLimit = 0
    /\ dateCursor = 0
    /\ dayResults = <<>>
    /\ queries = <<>>
    /\ results \in Candidates
    /\ iters = 0
    /\ internalSkip = 0
    /\ annotsByPage = <<>>
    /\ seenPages = {}
    /\ ret = <<>>

NextFacet == FacetCall

SpecFacet == InitFacet /\ [][NextFacet]_vars

\* C7: filterResults returns, as a set, exactly the candidate keys that have a
\* bookmark if bookmarksOnly, a tag outside tagsExc (and inside tagsInc when
\* that is non-empty) if either tag list is non-empty, and an entry in a list
\* named in collections if collections is non-empty.
C7_FacetFilter ==
    pc = "done" => Range(ret) = {k \in Range(results) : FacetPass(k, params)}

\* A call with all three stages triggered and a tag named in both tag lists:
\* key 1 carries only that tag and is dropped, key 2 survives on its other tag,
\* and bookmarked key 2 alone is returned in the candidates' place.
C7_Witness ==
    /\ pc = "done"
    /\ results = <<2, 1>>
    /\ params.bookmarksOnly /\ bookmarks = {1, 2}
    /\ params.tagsInc = {"t1", "t2"} /\ params.tagsExc = {"t1"}
    /\ tags = {<<"t1", 1>>, <<"t1", 2>>, <<"t2", 2>>}
    /\ params.collections = {"c2"}
    /\ listEntries = {<<2, 2>>, <<1, 1>>} /\ lists[2] = "c2"
    /\ ret = <<2>>

\* ----------------------------------------------------------- searchAnnots
\* The forEach of paginateAnnotsResults over one slice of annotations; reading
\* pageUrl of an undefined annotation throws a TypeError and ends the loop.
RECURSIVE ForEachAnnot(_, _, _)
ForEachAnnot(st, as, p) ==
    IF as = <<>> \/ st.threw THEN st
    ELSE IF as[1] = Undefined THEN [st EXCEPT !.threw = TRUE]
    ELSE LET annot == as[1]
             seen == st.seen \cup {pageUrl(annot)}
             prev == MapGet(st.byPage, pageUrl(annot), <<>>)
             byPage == IF Len(st.byPage) # p.limit /\ Cardinality(seen) > p.skip
                       THEN MapSet(st.byPage, pageUrl(annot), Append(prev, annot))
                       ELSE st.byPage
         IN ForEachAnnot([byPage |-> byPage, seen |-> seen, threw |-> FALSE],
                         Tail(as), p)

InternalPageSize(p) == p.limit * InternalPageMulti

SearchLookup ==
    /\ pc = "searchAnnots"
    /\ IF params.termsInc = <<>>
       THEN pc' = "errReduce" /\ results' = results
       ELSE pc' = "searchFilter" /\ results' = lookupTerms(params)
    /\ UNCHANGED <<store, params, dayLocals, iters, searchLocals, ret>>

SearchFilter ==
    /\ pc = "searchFilter"
    /\ results' = filterResults(results, params)
    /\ pc' = "paginate"
    /\ UNCHANGED <<store, params, dayLocals, iters, searchLocals, ret>>

\* One turn of the while loop of paginateAnnotsResults.
PaginateIter ==
    /\ pc = "paginate"
    /\ Len(annotsByPage) < params.limit
    /\ LET resSlice == Slice(results, internalSkip,
                             internalSkip + InternalPageSize(params))
           st == ForEachAnnot([byPage |-> annotsByPage, seen |-> seenPages,
                               threw |-> FALSE],
                              mapUrlsToAnnots(resSlice), params)
       IN IF resSlice = <<>>
          THEN /\ pc' = "done"
               /\ ret' = annotsByPage
               /\ UNCHANGED searchLocals
          ELSE IF st.threw
          THEN /\ pc' = "errUndefined"
               /\ UNCHANGED <<searchLocals, ret>>
          ELSE /\ annotsByPage' = st.byPage
               /\ seenPages' = st.seen
               /\ internalSkip' = internalSkip + InternalPageSize(params)
               /\ UNCHANGED <<pc, ret>>
    /\ UNCHANGED <<store, params, dayLocals, pageLocals>>

PaginateReturn ==
    /\ pc = "paginate"
    /\ ~(Len(annotsByPage) < params.limit)
    /\ ret' = annotsByPage
    /\ pc' = "done"
    /\ UNCHANGED <<store, params, dayLocals, pageLocals, searchLocals>>

SearchKeys == {1, 2, 3}
SearchTexts == {{}, {"alpha"}}
SearchTerms == {<<>>, <<"alpha">>}

InitSearch ==
    /\ annots \in [SearchKeys -> [pageUrl : Pages, lastEdited : {2}, live : {TRUE},
                                  body : SearchTexts, comment : SearchTexts]]
    /\ bookmarks \in SUBSET SearchKeys
    /\ tags = {}
    /\ lists = [id \in ListIds |-> "c1"]
    /\ listEntries = {}
    /\ installTime = 0
    /\ \E t \in SearchTerms, hl \in BOOLEAN, nt \in BOOLEAN, l \in 1..MaxLimit,
          s \in Skips, bm \in BOOLEAN :
          /\ ~bm => bookmarks = {}
          /\ params = [NoParams EXCEPT !.termsInc = t, !.includeHighlights = hl,
                                       !.includeNotes = nt, !.limit = l, !.skip = s,
                                       !.bookmarksOnly = bm]
    /\ pc = "searchAnnots"
    /\ InitLocals

NextSearch == SearchLookup \/ SearchFilter \/ PaginateIter \/ PaginateReturn

SpecSearch == InitSearch /\ [][NextSearch]_vars

\* ----------------------------------------------------- claims: searchAnnots
\* C6: a term search with terms and neither field enabled does not complete
\* normally; it fails with an InvalidQuery error.
C6_NoFieldsIsError ==
    (params.termsInc # <<>> /\ ~params.includeHighlights /\ ~params.includeNotes) =>
        pc # "done"

\* The first n distinct pages of the key sequence, in order of first appearance.
FirstPages(keys, n) ==
    LET pages == Dedup([i \in 1..Len(keys) |-> pageUrl(keys[i])])
    IN Range(SubSeq(pages, 1, Min(n, Len(pages))))

\* C10: the returned map has at most `limit` pages and none of the first
\* `skip` distinct pages of the filtered key sequence.
C10_SkippedPagesStayOut ==
    pc = "done" =>
        /\ Len(ret) <= params.limit
        /\ \A i \in 1..Len(ret) : ret[i].k \notin FirstPages(results, params.skip)

\* ------------------------------------------- the store changing under a call
\* Another writer deletes an annotation between two lookups of a running call.
DeleteAnnot ==
    /\ pc \in {"searchFilter", "paginate", "pageLoop", "pageCut"}
    /\ \E k \in Live : annots' = [annots EXCEPT ![k].live = FALSE]
    /\ UNCHANGED <<bookmarks, tags, lists, listEntries, installTime, params, pc,
                   dayLocals, pageLocals, searchLocals, ret>>

InitStoreChange ==
    \/ InitSearch /\ params.termsInc # <<>> /\ ~params.bookmarksOnly
    \/ InitPage /\ params.url # "" /\ ~params.bookmarksOnly /\ params.startDate = 0

NextStoreChange ==
    \/ SearchLookup \/ SearchFilter \/ PaginateIter \/ PaginateReturn
    \/ PageFetch \/ PageReturn
    \/ DeleteAnnot

SpecStoreChange == InitStoreChange /\ [][NextStoreChange]_vars

\* C8: a call whose keys lose their annotation records before mapUrlsToAnnots
\* resolves them still completes: no error is raised, and a returned listing
\* holds a hole exactly where a key no longer resolves.
C8_ToleratesDeletion ==
    /\ pc # "errUndefined"
    /\ (pc = "done" /\ params.url # "") =>
          \A i \in 1..Len(ret) : ret[i] = Undefined \/ ret[i] \in Live

====
